---------------------------- MODULE Spec2Model ----------------------------
(***************************************************************************)
(* httpie (src/main.rs): a command line HTTP client.                       *)
(*                                                                         *)
(* Strings are sequences of one-character strings, so that splitting and   *)
(* scanning are computed character by character as the code does.          *)
(*                                                                         *)
(* Three specifications:                                                   *)
(*   SpecKV   parse_key_value applied to every string over KvAlphabet      *)
(*   SpecUrl  parse_url applied to every string over UrlAlphabet           *)
(*   Spec     one run of main(): Cli::parse, dispatch of the verb, the     *)
(*            network exchange, and print_response                         *)
(***************************************************************************)
EXTENDS Integers, Sequences, FiniteSets, TLC

VARIABLES
    kvIn,       \* the &str handed to parse_key_value
    kvOut,      \* <<>> before the call, <<Result<KeyValue>>> after it
    urlIn,      \* the &str handed to parse_url
    urlOut,     \* <<>> before the call, <<Result<String>>> after it
    pc,         \* position of main() / print_response()
    argv,       \* the command line: [command, url, body] as raw strings
    cli,        \* <<>> or <<the parsed Cli (HttpMethod with validated args)>>
    requests,   \* the requests handed to the transport, in order
    response,   \* <<>> or <<the Response returned by send()>>
    output,     \* what was written to stdout, in order
    mime,       \* <<>> or <<Option<Mime>>> computed by get_content_type
    body,       \* <<>> or <<the text returned by response.text()>>
    consumed,   \* how many times the Response was consumed (response.text())
    exitCode,   \* -1 while running, else the exit status of the process
    error       \* "none" or the kind of failure that ended the run

kvVars  == <<kvIn, kvOut>>
urlVars == <<urlIn, urlOut>>
runVars == <<pc, argv, cli, requests, response, output, mime, body,
             consumed, exitCode, error>>
vars    == <<kvIn, kvOut, urlIn, urlOut, pc, argv, cli, requests, response,
             output, mime, body, consumed, exitCode, error>>

(***************************************************************************)
(* Bounds                                                                  *)
(***************************************************************************)
MaxKvLen  == 4      \* longest string handed to parse_key_value in SpecKV
MaxUrlLen == 6      \* longest string handed to parse_url in SpecUrl
MaxBody   == 2      \* most key=value arguments on a command line in Spec

(***************************************************************************)
(* Strings                                                                 *)
(***************************************************************************)
Strings(alphabet, n) == UNION {[1..k -> alphabet] : k \in 0..n}

\* First index of character c in s, 0 when s does not contain c.
RECURSIVE IndexFrom(_, _, _)
IndexFrom(s, c, i) ==
    IF i > Len(s) THEN 0
    ELSE IF s[i] = c THEN i
    ELSE IndexFrom(s, c, i + 1)

IndexOf(s, c) == IndexFrom(s, c, 1)

Contains(s, c) == \E i \in 1..Len(s) : s[i] = c

StartsWith(s, p) == Len(s) >= Len(p) /\ SubSeq(s, 1, Len(p)) = p

Drop(s, n) == SubSeq(s, n + 1, Len(s))

(***************************************************************************)
(* KeyValue::from_str and parse_key_value                                  *)
(***************************************************************************)
KvAlphabet == {"a", "b", "=", " "}

\* str::splitn(n, pat): at most n parts, the last one holding the remainder.
RECURSIVE splitn(_, _, _)
splitn(n, s, c) ==
    IF n = 0 THEN <<>>
    ELSE IF n = 1 THEN <<s>>
    ELSE LET i == IndexOf(s, c) IN
         IF i = 0 THEN <<s>>
         ELSE <<SubSeq(s, 1, i - 1)>> \o splitn(n - 1, Drop(s, i), c)

KeyValue(k, v) == [key |-> k, value |-> v]

Ok(v)  == [ok |-> TRUE, val |-> v]
Err(e) == [ok |-> FALSE, err |-> e]

\* A from_str that splits at every '=' and keeps the first two parts.
from_str_split_all(s) ==
    LET parts == splitn(Len(s) + 1, s, "=") IN
    IF Len(parts) < 2 THEN Err(s)
    ELSE Ok(KeyValue(parts[1], parts[2]))

\* A from_str that takes a string without '=' as a key with an empty value.
from_str_lenient(s) ==
    LET parts == splitn(2, s, "=") IN
    IF Len(parts) # 2 THEN Ok(KeyValue(s, <<>>))
    ELSE Ok(KeyValue(parts[1], parts[2]))

from_str(s) ==
    LET parts == splitn(2, s, "=") IN
    IF Len(parts) # 2 THEN Err(s)
    ELSE Ok(KeyValue(parts[1], parts[2]))

parse_key_value(kv) == from_str(kv)

(***************************************************************************)
(* parse_url.  `s.parse::<Url>()` is the url crate's parser run without a *)
(* base URL; it is modelled for the strings over UrlAlphabet: the scheme   *)
(* state, the special / non-special split, host and port.  Paths made of   *)
(* these characters never fail.  "ws" and "wss" are the special schemes    *)
(* the alphabet can spell; "file" cannot be spelled and is left out.       *)
(***************************************************************************)
UrlAlphabet == {"w", "s", "1", ":", "/"}

AsciiAlpha == {"a", "b", "w", "s"}
AsciiDigit == {"0", "1", "2", "3", "4", "5", "6", "7", "8", "9"}
SchemeChar == AsciiAlpha \cup AsciiDigit \cup {"+", "-", "."}

SpecialSchemes == { <<"w", "s">>, <<"w", "s", "s">> }

\* Parser::parse_scheme: index of the ':' ending the scheme, 0 on failure.
RECURSIVE scheme_scan(_, _)
scheme_scan(s, i) ==
    IF i > Len(s) THEN 0
    ELSE IF s[i] \in SchemeChar THEN scheme_scan(s, i + 1)
    ELSE IF s[i] = ":" THEN i
    ELSE 0

parse_scheme(s) ==
    IF s = <<>> \/ s[1] \notin AsciiAlpha THEN 0 ELSE scheme_scan(s, 2)

\* Length of the host: the characters before the first ':' or '/'.
RECURSIVE host_len(_, _)
host_len(s, i) ==
    IF i > Len(s) \/ s[i] \in {":", "/"} THEN i - 1 ELSE host_len(s, i + 1)

DigitValue(c) ==
    CASE c = "0" -> 0 [] c = "1" -> 1 [] c = "2" -> 2 [] c = "3" -> 3
      [] c = "4" -> 4 [] c = "5" -> 5 [] c = "6" -> 6 [] c = "7" -> 7
      [] c = "8" -> 8 [] c = "9" -> 9

U16Max == 65535

\* Parser::parse_port on what follows the ':': digits whose value fits a
\* u16, then '/' or the end.
RECURSIVE parse_port_ok(_, _)
parse_port_ok(s, port) ==
    IF s = <<>> THEN TRUE
    ELSE IF s[1] \in AsciiDigit
    THEN LET p == port * 10 + DigitValue(s[1]) IN
         IF p > U16Max THEN FALSE ELSE parse_port_ok(Tail(s), p)
    ELSE s[1] = "/"

\* Parser::parse_host_and_port on what follows the slashes.
host_and_port_ok(s, special) ==
    LET n    == host_len(s, 1)
        rest == Drop(s, n)
    IN  IF n = 0 /\ special THEN FALSE                       \* EmptyHost
        ELSE IF n = 0 /\ StartsWith(rest, <<":">>) THEN FALSE \* EmptyHost
        ELSE IF StartsWith(rest, <<":">>) THEN parse_port_ok(Tail(rest), 0)
        ELSE TRUE

RECURSIVE strip_slashes(_)
strip_slashes(s) ==
    IF s # <<>> /\ s[1] = "/" THEN strip_slashes(Tail(s)) ELSE s

\* Url::parse(s).is_ok()
url_parse_ok(s) ==
    LET e == parse_scheme(s) IN
    IF e = 0 THEN FALSE                               \* RelativeUrlWithoutBase
    ELSE LET scheme == SubSeq(s, 1, e - 1)
             rest   == Drop(s, e)
         IN  IF scheme \in SpecialSchemes
             THEN host_and_port_ok(strip_slashes(rest), TRUE)
             ELSE IF StartsWith(rest, <<"/", "/">>)
             THEN host_and_port_ok(Drop(rest, 2), FALSE)
             ELSE TRUE

\* Url's serialization: an empty path of a special URL is written as "/".
url_to_string(s) ==
    IF Contains(Drop(s, parse_scheme(s) + 2), "/") THEN s ELSE s \o <<"/">>

\* A parse_url that returns the parsed Url's string form.
parse_url_normalized(s) ==
    IF url_parse_ok(s) THEN Ok(url_to_string(s)) ELSE Err(s)

parse_url(s) ==
    IF url_parse_ok(s) THEN Ok(s) ELSE Err(s)

(***************************************************************************)
(* SpecKV and SpecUrl: the value parsers applied to every bounded string   *)
(***************************************************************************)
NotRunning ==
    /\ pc = "off"
    /\ argv = [command |-> "none", url |-> <<>>, body |-> <<>>]
    /\ cli = <<>>
    /\ requests = <<>>
    /\ response = <<>>
    /\ output = <<>>
    /\ mime = <<>>
    /\ body = <<>>
    /\ consumed = 0
    /\ exitCode = -1
    /\ error = "none"

InitKV ==
    /\ kvIn \in Strings(KvAlphabet, MaxKvLen)
    /\ kvOut = <<>>
    /\ urlIn = <<>>
    /\ urlOut = <<>>
    /\ NotRunning

CallParseKeyValue ==
    /\ kvOut = <<>>
    /\ kvOut' = <<parse_key_value(kvIn)>>
    /\ UNCHANGED <<kvIn, urlVars, runVars>>

SpecKV == InitKV /\ [][CallParseKeyValue]_vars

InitUrl ==
    /\ urlIn \in Strings(UrlAlphabet, MaxUrlLen)
    /\ urlOut = <<>>
    /\ kvIn = <<>>
    /\ kvOut = <<>>
    /\ NotRunning

CallParseUrl ==
    /\ urlOut = <<>>
    /\ urlOut' = <<parse_url(urlIn)>>
    /\ UNCHANGED <<urlIn, kvVars, runVars>>

SpecUrl == InitUrl /\ [][CallParseUrl]_vars

(***************************************************************************)
(* Spec: one run of main().                                                *)
(*                                                                         *)
(* The command line                                                        *)
(***************************************************************************)
Verbs == {"get", "post", "put", "delete"}

\* URL arguments: "ws://w" (absolute), "ws" (a bare host), "w:s" (a scheme
\* and an opaque path).
UrlArgs == { <<"w", "s", ":", "/", "/", "w">>, <<"w", "s">>, <<"w", ":", "s">> }

\* Body arguments: "a=1", "a=2", "b=" and "a" (no '=').
KvArgs == { <<"a", "=", "1">>, <<"a", "=", "2">>, <<"b", "=">>, <<"a">> }

Argvs ==
    {[command |-> "none", url |-> <<>>, body |-> <<>>]}
    \cup [command : {"get", "delete"}, url : UrlArgs, body : {<<>>}]
    \cup [command : {"post", "put"}, url : UrlArgs,
          body : Strings(KvArgs, MaxBody)]

(***************************************************************************)
(* The transport's responses.  A header value is a sequence of tokens.     *)
(***************************************************************************)
NameTokens == {"application", "text", "json", "plain", "html", "charset",
               "utf-8"}

\* Bytes outside visible ASCII, on which HeaderValue::to_str fails.
OpaqueTokens == {"<0xff>"}

ContentTypes ==
    { <<"application", "/", "json">>,
      <<"text", "/", "plain">>,
      <<"text", "/", "html">>,
      <<"application", "/", "json", ";", " ", "charset", "=", "utf-8">>,
      <<"text", "/", "plain", ";", " ", "charset", "=", "utf-8">>,
      <<"json">>,
      <<"<0xff>">>,
      <<>> }

Header(n, v) == [name |-> n, value |-> v]

HeaderMaps ==
    { <<>>, <<Header("server", <<"text">>)>> }
    \cup { <<Header("server", <<"text">>), Header("content-type", ct)>> :
             ct \in ContentTypes }

Bodies == {"{\"a\":1}", "hello"}

Responses == [status : {200, 404}, headers : HeaderMaps, text : Bodies]

\* HeaderMap::get(name): <<>> for None, <<value>> for Some(value).
RECURSIVE headers_get(_, _)
headers_get(h, n) ==
    IF h = <<>> THEN <<>>
    ELSE IF h[1].name = n THEN <<h[1].value>>
    ELSE headers_get(Tail(h), n)

to_str_ok(v) == \A i \in 1..Len(v) : v[i] \notin OpaqueTokens

\* Parameters of a media type: (";" [" "] name "=" value)*
RECURSIVE mime_params(_)
mime_params(v) ==
    IF v = <<>> THEN Ok(<<>>)
    ELSE IF v[1] # ";" THEN Err(v)
    ELSE LET w == IF Len(v) > 1 /\ v[2] = " " THEN Drop(v, 2) ELSE Tail(v) IN
         IF Len(w) >= 3 /\ w[1] \in NameTokens /\ w[2] = "="
            /\ w[3] \in NameTokens
         THEN LET r == mime_params(Drop(w, 3)) IN
              IF r.ok THEN Ok(<<<<w[1], w[3]>>>> \o r.val) ELSE r
         ELSE Err(v)

\* str::parse::<Mime>(): type "/" subtype, then the parameters.
mime_parse(v) ==
    IF Len(v) >= 3 /\ v[1] \in NameTokens /\ v[2] = "/" /\ v[3] \in NameTokens
    THEN LET r == mime_params(Drop(v, 3)) IN
         IF r.ok THEN Ok([type |-> v[1], subtype |-> v[3], params |-> r.val])
         ELSE r
    ELSE Err(v)

APPLICATION_JSON == [type |-> "application", subtype |-> "json", params |-> <<>>]
TEXT_PLAIN       == [type |-> "text", subtype |-> "plain", params |-> <<>>]

\* Mime's PartialEq compares the whole media type, parameters included.
mime_eq(m, n) == m = n

\* Option<Mime>: <<>> is None, <<m>> is Some(m).  The two unwrap() calls
\* panic on a value that is not visible ASCII or not a media type.
Panic == [panic |-> TRUE]
Return(v) == [panic |-> FALSE, val |-> v]

\* A get_content_type that treats an unparseable value as an absent header.
get_content_type_fallback(resp) ==
    LET v == headers_get(resp.headers, "content-type") IN
    IF v = <<>> THEN Return(<<>>)
    ELSE IF ~to_str_ok(v[1]) THEN Return(<<>>)
    ELSE IF ~mime_parse(v[1]).ok THEN Return(<<>>)
    ELSE Return(<<mime_parse(v[1]).val>>)

get_content_type(resp) ==
    LET v == headers_get(resp.headers, "content-type") IN
    IF v = <<>> THEN Return(<<>>)
    ELSE IF ~to_str_ok(v[1]) THEN Panic
    ELSE IF ~mime_parse(v[1]).ok THEN Panic
    ELSE Return(<<mime_parse(v[1]).val>>)

(***************************************************************************)
(* What is written to stdout                                               *)
(***************************************************************************)
Notice == [kind |-> "notice", text |-> "No HTTP method specified."]

StatusLine(resp) == [kind |-> "status", status |-> resp.status]

RECURSIVE HeaderLines(_)
HeaderLines(h) ==
    IF h = <<>> THEN <<>>
    ELSE <<[kind |-> "header", name |-> h[1].name, value |-> h[1].value]>>
         \o HeaderLines(Tail(h))

HeaderEnd == [kind |-> "header_end"]

\* print_syntect(s, ext): the highlighter, called with extension ext.  Both
\* extensions the program asks for are in syntect's default syntax set.
print_syntect(s, ext) == [kind |-> "syntect", ext |-> ext, text |-> s]

RawBody(s) == [kind |-> "raw", text |-> s]

print_body(m, s) ==
    IF m # <<>> /\ mime_eq(m[1], APPLICATION_JSON) THEN print_syntect(s, "json")
    ELSE IF m # <<>> /\ mime_eq(m[1], TEXT_PLAIN) THEN print_syntect(s, "html")
    ELSE RawBody(s)

(***************************************************************************)
(* Requests.  main builds the default headers from two constant strings   *)
(* and the Client from them before it dispatches; every request of the    *)
(* run carries them.                                                       *)
(***************************************************************************)
DefaultHeaders ==
    <<Header("x-power-by", "Rust"), Header("user-agent", "Rust Httpie")>>

\* HashMap::new() and HashMap::insert: a map is a function on its keys.
hashmap_new == <<>>

\* An insert that keeps the value already stored under the key.
hashmap_insert_keep(m, k, v) ==
    [x \in DOMAIN m \cup {k} |-> IF x \in DOMAIN m THEN m[x] ELSE v]

hashmap_insert(m, k, v) ==
    [x \in DOMAIN m \cup {k} |-> IF x = k THEN v ELSE m[x]]

\* for pair in args.body.iter() { body.insert(&pair.key, &pair.value); }
RECURSIVE form_of(_, _)
form_of(m, pairs) ==
    IF pairs = <<>> THEN m
    ELSE form_of(hashmap_insert(m, pairs[1].key, pairs[1].value), Tail(pairs))

Request(method, url, encoding, form) ==
    [method |-> method, url |-> url, headers |-> DefaultHeaders,
     encoding |-> encoding, form |-> form]

(***************************************************************************)
(* Actions                                                                 *)
(***************************************************************************)
Init ==
    /\ kvIn = <<>>
    /\ kvOut = <<>>
    /\ urlIn = <<>>
    /\ urlOut = <<>>
    /\ pc = "start"
    /\ argv \in Argvs
    /\ cli = <<>>
    /\ requests = <<>>
    /\ response = <<>>
    /\ output = <<>>
    /\ mime = <<>>
    /\ body = <<>>
    /\ consumed = 0
    /\ exitCode = -1
    /\ error = "none"

ArgsValid(a) ==
    a.command \in Verbs =>
        /\ parse_url(a.url).ok
        /\ \A i \in 1..Len(a.body) : parse_key_value(a.body[i]).ok

Exit(code, kind) ==
    /\ pc' = "exit"
    /\ exitCode' = code
    /\ error' = kind

\* A Cli::parse that hands body arguments on without validating them.
cli_parse_body_unchecked ==
    /\ pc = "start"
    /\ IF argv.command \in Verbs /\ ~parse_url(argv.url).ok
       THEN /\ Exit(2, "validation")
            /\ UNCHANGED cli
       ELSE /\ cli' = <<[command |-> argv.command,
                         url |-> argv.url,
                         body |-> [i \in 1..Len(argv.body) |->
                                     from_str_lenient(argv.body[i]).val]]>>
            /\ pc' = "main"
            /\ UNCHANGED <<exitCode, error>>
    /\ UNCHANGED <<kvVars, urlVars, argv, requests, response, output, mime,
                   body, consumed>>

\* Cli::parse(): clap runs the value parsers on the raw arguments and exits
\* with status 2 on the first error.
cli_parse ==
    /\ pc = "start"
    /\ IF ~ArgsValid(argv)
       THEN /\ Exit(2, "validation")
            /\ UNCHANGED cli
       ELSE /\ cli' = <<[command |-> argv.command,
                         url |-> IF argv.command \in Verbs
                                 THEN parse_url(argv.url).val ELSE <<>>,
                         body |-> [i \in 1..Len(argv.body) |->
                                     parse_key_value(argv.body[i]).val]]>>
            /\ pc' = "main"
            /\ UNCHANGED <<exitCode, error>>
    /\ UNCHANGED <<kvVars, urlVars, argv, requests, response, output, mime,
                   body, consumed>>

\* A None arm that reports a usage error.
no_method_usage_error ==
    /\ pc = "main"
    /\ cli[1].command = "none"
    /\ Exit(2, "usage")
    /\ UNCHANGED <<kvVars, urlVars, argv, cli, requests, response, output,
                   mime, body, consumed>>

\* main, the None arm: the notice is printed and main returns Ok.
no_method ==
    /\ pc = "main"
    /\ cli[1].command = "none"
    /\ output' = Append(output, Notice)
    /\ Exit(0, "none")
    /\ UNCHANGED <<kvVars, urlVars, argv, cli, requests, response, mime,
                   body, consumed>>

Send(req) ==
    /\ requests' = Append(requests, req)
    /\ pc' = "sending"
    /\ UNCHANGED <<kvVars, urlVars, argv, cli, response, output, mime, body,
                   consumed, exitCode, error>>

get ==
    /\ pc = "main"
    /\ cli[1].command = "get"
    /\ Send(Request("GET", cli[1].url, "none", hashmap_new))

post ==
    /\ pc = "main"
    /\ cli[1].command = "post"
    /\ Send(Request("POST", cli[1].url, "form",
                    form_of(hashmap_new, cli[1].body)))

put ==
    /\ pc = "main"
    /\ cli[1].command = "put"
    /\ Send(Request("PUT", cli[1].url, "form",
                    form_of(hashmap_new, cli[1].body)))

delete ==
    /\ pc = "main"
    /\ cli[1].command = "delete"
    /\ Send(Request("DELETE", cli[1].url, "none", hashmap_new))

\* A send that is tried again after a failure.
send_err_retry ==
    /\ pc = "sending"
    /\ pc' = "main"
    /\ UNCHANGED <<kvVars, urlVars, argv, cli, requests, response, output,
                   mime, body, consumed, exitCode, error>>

\* send().await? fails: the error is returned from main.
send_err ==
    /\ pc = "sending"
    /\ Exit(1, "transport_send")
    /\ UNCHANGED <<kvVars, urlVars, argv, cli, requests, response, output,
                   mime, body, consumed>>

\* A print_response that starts with the header block.
send_ok_no_status ==
    /\ pc = "sending"
    /\ \E r \in Responses : response' = <<r>>
    /\ pc' = "print_header"
    /\ UNCHANGED <<kvVars, urlVars, argv, cli, requests, output, mime, body,
                   consumed, exitCode, error>>

\* send().await? succeeds: print_response(response) is entered.
send_ok ==
    /\ pc = "sending"
    /\ \E r \in Responses : response' = <<r>>
    /\ pc' = "print_status"
    /\ UNCHANGED <<kvVars, urlVars, argv, cli, requests, output, mime, body,
                   consumed, exitCode, error>>

print_status ==
    /\ pc = "print_status"
    /\ output' = Append(output, StatusLine(response[1]))
    /\ pc' = "print_header"
    /\ UNCHANGED <<kvVars, urlVars, argv, cli, requests, response, mime, body,
                   consumed, exitCode, error>>

print_header ==
    /\ pc = "print_header"
    /\ output' = output \o HeaderLines(response[1].headers) \o <<HeaderEnd>>
    /\ pc' = "get_content_type"
    /\ UNCHANGED <<kvVars, urlVars, argv, cli, requests, response, mime, body,
                   consumed, exitCode, error>>

\* let mime = get_content_type(&response); a panic ends the process (101).
content_type ==
    /\ pc = "get_content_type"
    /\ LET r == get_content_type(response[1]) IN
       IF r.panic
       THEN /\ Exit(101, "panic")
            /\ UNCHANGED mime
       ELSE /\ mime' = <<r.val>>
            /\ pc' = "text"
            /\ UNCHANGED <<exitCode, error>>
    /\ UNCHANGED <<kvVars, urlVars, argv, cli, requests, response, output,
                   body, consumed>>

\* response.text().await? takes the Response and yields the whole body.
text_ok ==
    /\ pc = "text"
    /\ consumed' = consumed + 1
    /\ body' = <<response[1].text>>
    /\ pc' = "print_body"
    /\ UNCHANGED <<kvVars, urlVars, argv, cli, requests, response, output,
                   mime, exitCode, error>>

\* response.text().await? fails while the body is read.
text_err ==
    /\ pc = "text"
    /\ consumed' = consumed + 1
    /\ Exit(1, "transport_body")
    /\ UNCHANGED <<kvVars, urlVars, argv, cli, requests, response, output,
                   mime, body>>

\* print_body(mime, &body); Ok(()) is returned up to main.
print_body_step ==
    /\ pc = "print_body"
    /\ output' = Append(output, print_body(mime[1], body[1]))
    /\ Exit(0, "none")
    /\ UNCHANGED <<kvVars, urlVars, argv, cli, requests, response, mime, body,
                   consumed>>

Next ==
    \/ cli_parse
    \/ no_method
    \/ get
    \/ post
    \/ put
    \/ delete
    \/ send_ok
    \/ send_err
    \/ print_status
    \/ print_header
    \/ content_type
    \/ text_ok
    \/ text_err
    \/ print_body_step

Spec == Init /\ [][Next]_vars

(***************************************************************************)
(* C1.  Whenever s contains '=', parse_key_value(s) succeeds, its key is   *)
(* the part of s before the first '=' and its value is everything after    *)
(* the first '=', further '=' included, untrimmed, possibly empty.         *)
(***************************************************************************)
FirstEq(s) == CHOOSE i \in 1..Len(s) : s[i] = "=" /\ \A j \in 1..(i - 1) : s[j] # "="

C1_SplitAtFirstEq ==
    (kvOut # <<>> /\ Contains(kvIn, "=")) =>
        /\ kvOut[1].ok
        /\ kvOut[1].val.key = SubSeq(kvIn, 1, FirstEq(kvIn) - 1)
        /\ kvOut[1].val.value = SubSeq(kvIn, FirstEq(kvIn) + 1, Len(kvIn))
        /\ ~Contains(kvOut[1].val.key, "=")
        /\ kvOut[1].val.key \o <<"=">> \o kvOut[1].val.value = kvIn

\* "a=b=" was parsed: a second '=' stays in the value.
C1_Witness ==
    /\ kvIn = <<"a", "=", "b", "=">>
    /\ kvOut = <<Ok(KeyValue(<<"a">>, <<"b", "=">>))>>

(***************************************************************************)
(* C2.  Whenever s contains no '=' (the empty string included),            *)
(* parse_key_value(s) is an error and yields no KeyValue.                  *)
(***************************************************************************)
C2_NoEqFails ==
    (kvOut # <<>> /\ ~Contains(kvIn, "=")) =>
        /\ ~kvOut[1].ok
        /\ "val" \notin DOMAIN kvOut[1]

\* The empty string was rejected.
C2_Witness ==
    /\ kvIn = <<>>
    /\ kvOut # <<>>
    /\ ~kvOut[1].ok

(***************************************************************************)
(* C3.  parse_url(s) fails whenever s has neither a scheme nor an          *)
(* authority, and for every well-formed absolute URL s (scheme, "//", a    *)
(* non-empty host, an optional port, an optional path) it succeeds and     *)
(* returns exactly s.                                                      *)
(***************************************************************************)
HasScheme(s) ==
    \E e \in 1..Len(s) :
        /\ s[e] = ":"
        /\ e > 1
        /\ s[1] \in AsciiAlpha
        /\ \A i \in 1..(e - 1) : s[i] \in SchemeChar

RECURSIVE PortValue(_)
PortValue(d) ==
    IF d = <<>> THEN 0
    ELSE 10 * PortValue(SubSeq(d, 1, Len(d) - 1)) + DigitValue(d[Len(d)])

\* scheme "://" host [":" port] ["/" path], the host a name that starts
\* with a letter, the port a 16-bit number.
WellFormedAbsoluteUrl(s) ==
    \E e \in 2..Len(s) : \E h \in (e + 3)..Len(s) :
        /\ s[1] \in AsciiAlpha
        /\ \A i \in 1..(e - 1) : s[i] \in SchemeChar
        /\ SubSeq(s, e, e + 2) = <<":", "/", "/">>
        /\ s[e + 3] \in AsciiAlpha
        /\ \A i \in (e + 3)..h : s[i] \in AsciiAlpha \cup AsciiDigit
        /\ \/ h = Len(s)
           \/ s[h + 1] = "/"
           \/ /\ s[h + 1] = ":"
              /\ \E p \in (h + 1)..Len(s) :
                    /\ \A i \in (h + 2)..p : s[i] \in AsciiDigit
                    /\ PortValue(SubSeq(s, h + 2, p)) <= U16Max
                    /\ p = Len(s) \/ s[p + 1] = "/"

C3_WitnessReject ==
    /\ urlIn = <<"w", "s">>
    /\ urlOut # <<>>
    /\ ~urlOut[1].ok

(***************************************************************************)
(* C4.  The form submitted by POST and PUT has exactly one entry per       *)
(* distinct key of the body sequence, holding the value of the last pair   *)
(* with that key.                                                          *)
(***************************************************************************)
Keys(pairs) == {pairs[i].key : i \in 1..Len(pairs)}

LastWith(pairs, k) ==
    CHOOSE j \in 1..Len(pairs) :
        /\ pairs[j].key = k
        /\ \A l \in (j + 1)..Len(pairs) : pairs[l].key # k

C4_LastOccurrenceWins ==
    \A i \in 1..Len(requests) :
        requests[i].method \in {"POST", "PUT"} =>
            /\ requests[i].encoding = "form"
            /\ DOMAIN requests[i].form = Keys(cli[1].body)
            /\ \A k \in Keys(cli[1].body) :
                 requests[i].form[k]
                     = cli[1].body[LastWith(cli[1].body, k)].value

\* "post ws://w a=1 a=2" submitted the single entry a -> 2.
C4_Witness ==
    /\ argv.command = "post"
    /\ argv.body = << <<"a", "=", "1">>, <<"a", "=", "2">> >>
    /\ Len(requests) = 1
    /\ DOMAIN requests[1].form = { <<"a">> }
    /\ requests[1].form[<<"a">>] = <<"2">>

(***************************************************************************)
(* C5.  The rendering of the body is decided by the type/subtype of the    *)
(* response's Content-Type alone: application/json goes to the highlighter *)
(* with the json hint, text/plain with the html hint, anything else and    *)
(* an absent header is printed raw.                                        *)
(***************************************************************************)
DeclaredType(resp) ==
    LET v == headers_get(resp.headers, "content-type") IN
    IF v # <<>> /\ to_str_ok(v[1]) /\ mime_parse(v[1]).ok
    THEN <<mime_parse(v[1]).val.type, mime_parse(v[1]).val.subtype>>
    ELSE <<>>

C5_ByDeclaredType ==
    (pc = "exit" /\ exitCode = 0 /\ response # <<>>) =>
        LET shown == output[Len(output)]
            txt   == response[1].text
            ty    == DeclaredType(response[1])
        IN  IF ty = <<"application", "json">>
            THEN shown = print_syntect(txt, "json")
            ELSE IF ty = <<"text", "plain">>
            THEN shown = print_syntect(txt, "html")
            ELSE shown = RawBody(txt)

(***************************************************************************)
(* C6.  What is written for a response is the status line, then the whole  *)
(* header block, then the body; the Response is consumed at most once, by  *)
(* response.text(), after the header block, and nothing reads it after.    *)
(***************************************************************************)
IsPrefix(a, b) == Len(a) <= Len(b) /\ SubSeq(b, 1, Len(a)) = a

HeadRendering(resp) ==
    <<StatusLine(resp)>> \o HeaderLines(resp.headers) \o <<HeaderEnd>>

C7_NoSubcommand ==
    argv.command = "none" =>
        /\ requests = <<>>
        /\ response = <<>>
        /\ pc \in {"start", "main", "exit"}
        /\ pc = "exit" => (output = <<Notice>> /\ exitCode = 0 /\ error = "none")
        /\ pc # "exit" => (output = <<>> /\ exitCode = -1)

C7_Witness ==
    /\ argv.command = "none"
    /\ pc = "exit"
    /\ output = <<Notice>>
    /\ exitCode = 0

(***************************************************************************)
(* C8.  A request is only ever sent with a URL that passed parse_url and   *)
(* body arguments that all passed parse_key_value; a run with an argument  *)
(* that fails validation ends with an error and no request.                *)
(***************************************************************************)
C8_ValidationFirst ==
    /\ requests # <<>> =>
        /\ parse_url(argv.url).ok
        /\ \A i \in 1..Len(argv.body) : parse_key_value(argv.body[i]).ok
        /\ \A i \in 1..Len(requests) : requests[i].url = argv.url
    /\ (pc # "start" /\ ~ArgsValid(argv)) =>
        /\ pc = "exit"
        /\ requests = <<>>
        /\ output = <<>>
        /\ error = "validation"
        /\ exitCode \notin {-1, 0}

\* A run whose URL and first body argument are valid and whose second body
\* argument is not was aborted.
C8_Witness ==
    /\ pc = "exit"
    /\ error = "validation"
    /\ parse_url(argv.url).ok
    /\ Len(argv.body) = 2
    /\ parse_key_value(argv.body[1]).ok
    /\ ~parse_key_value(argv.body[2]).ok

(***************************************************************************)
(* C9.  A run issues at most one request, and exactly one when a verb is   *)
(* given valid arguments.  After a transport error no further request is   *)
(* sent and the run ends with a non-zero status.  As stated, nothing of    *)
(* the response is rendered after a transport error (C9_AsStated); as      *)
(* amended, that holds of a failure of send(), while a failure of          *)
(* response.text() leaves the status line and the header block written     *)
(* and no body (C9_SingleExchange).                                        *)
(***************************************************************************)
TransportErrors == {"transport_send", "transport_body"}

C9_Exchanges ==
    /\ Len(requests) <= 1
    /\ (pc \notin {"start", "main"} /\ argv.command \in Verbs /\ ArgsValid(argv))
          => Len(requests) = 1
    /\ error \in TransportErrors =>
          (pc = "exit" /\ Len(requests) = 1 /\ exitCode \notin {-1, 0})

C9_AsStated ==
    /\ C9_Exchanges
    /\ error \in TransportErrors => output = <<>>

C9_SingleExchange ==
    /\ C9_Exchanges
    /\ error = "transport_send" => (output = <<>> /\ response = <<>>)
    /\ error = "transport_body" =>
          (output = HeadRendering(response[1]) /\ body = <<>>)

\* send() failed.
C9_Witness ==
    /\ error = "transport_send"
    /\ pc = "exit"
    /\ Len(requests) = 1

(***************************************************************************)
(* C10.  A Content-Type value that is no media type ends the run with a    *)
(* non-zero status after the status line and the header block were         *)
(* written; the body is never read or printed.  Only an absent header      *)
(* falls back to raw printing.                                             *)
(***************************************************************************)
ContentTypeOf(resp) == headers_get(resp.headers, "content-type")

Unparseable(resp) ==
    /\ ContentTypeOf(resp) # <<>>
    /\ ~(to_str_ok(ContentTypeOf(resp)[1]) /\ mime_parse(ContentTypeOf(resp)[1]).ok)

C10_UnparseableContentType ==
    response # <<>> =>
        /\ Unparseable(response[1]) =>
            /\ consumed = 0
            /\ body = <<>>
            /\ IsPrefix(output, HeadRendering(response[1]))
            /\ pc = "exit" =>
                /\ exitCode \notin {-1, 0}
                /\ error = "panic"
                /\ output = HeadRendering(response[1])
        /\ (ContentTypeOf(response[1]) = <<>> /\ pc = "exit" /\ exitCode = 0) =>
              output[Len(output)] = RawBody(response[1].text)

\* The value "json" (no '/') ended the run after the header block.
C10_Witness ==
    /\ pc = "exit"
    /\ response # <<>>
    /\ ContentTypeOf(response[1]) = << <<"json">> >>
    /\ error = "panic"
    /\ output = HeadRendering(response[1])

=============================================================================
